---------------------------- MODULE Spec2Model ----------------------------
(***************************************************************************)
(* A model of package shamir of vaxann/shamir-cli: (k, n)-threshold secret *)
(* sharing over GF(2^8).                                                   *)
(*                                                                         *)
(* The repository holds two copies of the package:                         *)
(*   - src/shamir/shamir.go: Split shares the secret bytes as they are and *)
(*     Combine returns whatever the interpolation yields;                  *)
(*   - the listing in src/RELEASE.md, lines 235-506: Split appends a one   *)
(*     byte XOR checksum and Combine verifies it.                          *)
(* The field arithmetic, evaluatePolynomial and lagrangeInterpolation are  *)
(* the same text in both.  The variable impl says which copy a run uses.   *)
(*                                                                         *)
(* Go's 0-based slices are 1-based sequences here: position p of a         *)
(* sequence is byteIndex p-1 of the code.  A nil slice and an empty slice  *)
(* are both <<>>.  A byte is a number in 0..255.                           *)
(***************************************************************************)
EXTENDS Integers, Sequences, FiniteSets, TLC

VARIABLES impl,      \* which copy of package shamir the run uses
          pc,        \* the last step of the calling program
          secret,    \* Split's argument secret
          n,         \* Split's argument n
          k,         \* Split's argument k
          rnd,       \* the bytes crypto/rand delivered, per position
          splitOut,  \* what Split returned
          held,      \* the shares the caller is about to pass to Combine
          origin,    \* where held comes from: a subset, a tampered one, ...
          combOut,   \* what Combine returned
          probe,     \* the input and result of a function applied on its own
          stdout,    \* the lines the command-line program has printed
          exit,      \* the exit status of the process, once it has ended
          tables,    \* the state of gfMulTable and gfInvTable
          memory,    \* the caller's array that secrets are slices of
          goroutines \* the call each goroutine of the caller is making

vars == <<impl, pc, secret, n, k, rnd, splitOut, held, origin, combOut, probe,
          stdout, exit, tables, memory, goroutines>>

-----------------------------------------------------------------------------
(* Bounds of the model. *)

\* The longest secret Split is given.
MaxLen == 1
\* The largest n Split is given in the main specification.
MaxN == 3
\* The longest share value in a share list made up by the caller.
MaxValLen == 1
\* The longest share list made up by the caller.
MaxForged == 2

\* The bytes a secret is made of (0x41 and 0x42 are the spec's scenario A).
SecretBytes == {0, 65, 66}
\* The bytes the random source delivers.
RandBytes == {0, 173}
\* The XOR differences by which one byte of a share is altered.
Deltas == {255}
\* The ids and bytes of made-up shares.
ForgedIds == {0, 1, 2}
ForgedBytes == {0, 1}

-----------------------------------------------------------------------------
(* Program constants. *)

\* The number of byte values: the size of gfMulTable and gfInvTable.
FieldSize == 256
\* The reduction constant of x^8 + x^4 + x^3 + x + 1.
ReductionPoly == 27
\* The high bit of a byte, 0x80.
HighBit == 128
\* The iterations of the shift-and-reduce loop.
MulRounds == 8
\* The least k Split accepts.
MinThreshold == 2
\* The least number of shares Combine accepts.
MinShares == 2
\* The largest n.
MaxParts == 255

Byte == 0..(FieldSize - 1)

-----------------------------------------------------------------------------
(* Bytes: Go's ^ on two bytes. *)

\* The XOR of the w low bits of a and b.
RECURSIVE xorBits(_, _, _)
xorBits(a, b, w) ==
  IF w = 0 THEN 0
  ELSE (((a % 2) + (b % 2)) % 2) + 2 * xorBits(a \div 2, b \div 2, w - 1)

\* The XOR of two 4-bit halves, and of two bytes half by half.
xorNibble == [a \in 0..15 |-> [b \in 0..15 |-> xorBits(a, b, 4)]]

xorTable ==
  [a \in Byte |-> [b \in Byte |->
     16 * xorNibble[a \div 16][b \div 16] + xorNibble[a % 16][b % 16]]]

Xor(a, b) == xorTable[a][b]

-----------------------------------------------------------------------------
(* Field arithmetic. *)

\* gfMulLoop without the reduction of the shifted a.
RECURSIVE gfMulLoopNoReduce(_, _, _, _)
gfMulLoopNoReduce(a, b, i, result) ==
  IF i >= MulRounds THEN result
  ELSE LET r1 == IF b % 2 = 1 THEN Xor(result, a) ELSE result
       IN  gfMulLoopNoReduce((a * 2) % FieldSize, b \div 2, i + 1, r1)

\* gfMulLoop with the high bit tested after the shift of a.
RECURSIVE gfMulLoopLateHighBit(_, _, _, _)
gfMulLoopLateHighBit(a, b, i, result) ==
  IF i >= MulRounds THEN result
  ELSE LET r1 == IF b % 2 = 1 THEN Xor(result, a) ELSE result
           a1 == (a * 2) % FieldSize
           highBit == (a1 \div HighBit) % 2 = 1
           a2 == IF highBit THEN Xor(a1, ReductionPoly) ELSE a1
       IN  gfMulLoopLateHighBit(a2, b \div 2, i + 1, r1)

\* The loop of gfMulPrimitive, from iteration i with the current a, b, result.
RECURSIVE gfMulLoop(_, _, _, _)
gfMulLoop(a, b, i, result) ==
  IF i >= MulRounds THEN result
  ELSE LET r1 == IF b % 2 = 1 THEN Xor(result, a) ELSE result
           highBit == (a \div HighBit) % 2 = 1
           a1 == (a * 2) % FieldSize
           a2 == IF highBit THEN Xor(a1, ReductionPoly) ELSE a1
       IN  gfMulLoop(a2, b \div 2, i + 1, r1)

gfMulPrimitive(a, b) ==
  IF a = 0 \/ b = 0 THEN 0 ELSE gfMulLoop(a, b, 0, 0)

\* The search of gfInvPrimitive: the first i of 1..255 with a * i = 1, and 0
\* when the loop finds none.
gfInvSearch(a) ==
  LET found == {i \in 1..(FieldSize - 1) : gfMulPrimitive(a, i) = 1}
  IN  IF found = {} THEN 0
      ELSE CHOOSE i \in found : \A j \in found : i <= j

gfInvPrimitive(a) ==
  IF a = 0 THEN 0 ELSE gfInvSearch(a)

\* The package variables before init has run (Go's zero value) and after
\* initGF has filled them; writes counts the runs of initGF.
tablesZero == [state |-> "zero", writes |-> 0]

tablesBuilt == [state |-> "built", writes |-> 1]

\* The tables as initGF leaves them.
gfMulTable == [a \in Byte |-> [b \in Byte |-> gfMulPrimitive(a, b)]]

gfInvTable == [a \in Byte |-> IF a = 0 THEN 0 ELSE gfInvPrimitive(a)]

\* gfMul with the integer product of the bytes in place of the table.
gfMulInteger(a, b) == (a * b) % FieldSize

gfMul(a, b) == gfMulTable[a][b]

gfInv(a) == gfInvTable[a]

gfAdd(a, b) == Xor(a, b)

gfSub(a, b) == Xor(a, b)

-----------------------------------------------------------------------------
(* Polynomials. *)

\* evaluateLoop with the power of x advanced after the term is added.
RECURSIVE evaluateLoopLatePower(_, _, _, _, _)
evaluateLoopLatePower(coeffs, x, i, xPow, result) ==
  IF i >= Len(coeffs) THEN result
  ELSE evaluateLoopLatePower(coeffs, x, i + 1, gfMul(xPow, x),
                             gfAdd(result, gfMul(coeffs[i + 1], xPow)))

\* The loop of evaluatePolynomial, from index i (0-based, as in the code).
RECURSIVE evaluateLoop(_, _, _, _, _)
evaluateLoop(coeffs, x, i, xPow, result) ==
  IF i >= Len(coeffs) THEN result
  ELSE LET xPow1 == gfMul(xPow, x)
       IN  evaluateLoop(coeffs, x, i + 1, xPow1,
                        gfAdd(result, gfMul(coeffs[i + 1], xPow1)))

evaluatePolynomial(coeffs, x) ==
  IF Len(coeffs) = 0 THEN 0
  ELSE evaluateLoop(coeffs, x, 1, 1, coeffs[1])

\* lagrangeTerm with the numerator built from xs[i] instead of xs[j].
RECURSIVE lagrangeTermOwnX(_, _, _, _, _)
lagrangeTermOwnX(xs, i, j, numerator, denominator) ==
  IF j > Len(xs) THEN <<numerator, denominator>>
  ELSE IF i # j
    THEN lagrangeTermOwnX(xs, i, j + 1, gfMul(numerator, xs[i]),
                          gfMul(denominator, gfAdd(xs[i], xs[j])))
    ELSE lagrangeTermOwnX(xs, i, j + 1, numerator, denominator)

\* lagrangeTerm taking only the factors of the shares after share i.
RECURSIVE lagrangeTermAfterI(_, _, _, _, _)
lagrangeTermAfterI(xs, i, j, numerator, denominator) ==
  IF j > Len(xs) THEN <<numerator, denominator>>
  ELSE IF j > i
    THEN lagrangeTermAfterI(xs, i, j + 1, gfMul(numerator, xs[j]),
                            gfMul(denominator, gfAdd(xs[i], xs[j])))
    ELSE lagrangeTermAfterI(xs, i, j + 1, numerator, denominator)

\* The inner loop of lagrangeInterpolation for term i, from index j
\* (1-based): <<numerator, denominator>>.
RECURSIVE lagrangeTerm(_, _, _, _, _)
lagrangeTerm(xs, i, j, numerator, denominator) ==
  IF j > Len(xs) THEN <<numerator, denominator>>
  ELSE IF i # j
    THEN lagrangeTerm(xs, i, j + 1, gfMul(numerator, xs[j]),
                      gfMul(denominator, gfAdd(xs[i], xs[j])))
    ELSE lagrangeTerm(xs, i, j + 1, numerator, denominator)

\* lagrangeLoop leaving out the term of the last share.
RECURSIVE lagrangeLoopSkipLast(_, _, _, _)
lagrangeLoopSkipLast(xs, ys, i, result) ==
  IF i >= Len(xs) THEN result
  ELSE LET nd == lagrangeTerm(xs, i, 1, 1, 1)
           lagrangeBasis == gfMul(nd[1], gfInv(nd[2]))
       IN  lagrangeLoopSkipLast(xs, ys, i + 1,
                        IF nd[2] # 0
                          THEN gfAdd(result, gfMul(ys[i], lagrangeBasis))
                          ELSE result)

\* The outer loop of lagrangeInterpolation, from term i (1-based).
RECURSIVE lagrangeLoop(_, _, _, _)
lagrangeLoop(xs, ys, i, result) ==
  IF i > Len(xs) THEN result
  ELSE LET nd == lagrangeTerm(xs, i, 1, 1, 1)
           lagrangeBasis == gfMul(nd[1], gfInv(nd[2]))
       IN  lagrangeLoop(xs, ys, i + 1,
                        IF nd[2] # 0
                          THEN gfAdd(result, gfMul(ys[i], lagrangeBasis))
                          ELSE result)

lagrangeInterpolation(xs, ys) == lagrangeLoop(xs, ys, 1, 0)

\* The denominator lagrangeInterpolation ends the inner loop with, per term.
lagrangeDenominators(xs) ==
  [i \in 1..Len(xs) |-> lagrangeTerm(xs, i, 1, 1, 1)[2]]

\* lagrangeInvArgs with gfInv called on the denominator of every term.
lagrangeInvArgsUnguarded(xs) ==
  {lagrangeDenominators(xs)[i] : i \in 1..Len(xs)}

\* The arguments lagrangeInterpolation calls gfInv with: the call is inside
\* `if denominator != 0`.
lagrangeInvArgs(xs) ==
  {lagrangeDenominators(xs)[i] :
     i \in {t \in 1..Len(xs) : lagrangeDenominators(xs)[t] # 0}}

-----------------------------------------------------------------------------
(* Errors.  Each is the text of errors.New in the listing of src/RELEASE.md;
   src/shamir/shamir.go returns the same errors with Russian texts. *)

ErrNil == "nil"
ErrThreshold == "k must be at least 2"
ErrTotal == "n must be at least k"
ErrTooMany == "n cannot be greater than 255"
ErrFewShares == "minimum 2 parts required"
ErrLength == "all parts must have the same length"
ErrTooShort == "recovered data is too short"
ErrChecksum == "checksum verification failed: unable to recover original string"

\* The copies of the package.
Plain == "src/shamir/shamir.go"
Checksummed == "src/RELEASE.md:235-506"
Impls == {Plain, Checksummed}

-----------------------------------------------------------------------------
(* Split. *)

\* The zero value of Share: what make([]Share, n) fills the slice with.
zeroShare == [ID |-> 0, Value |-> <<>>]

\* calculateChecksum, from position i with the checksum so far.
RECURSIVE checksumLoop(_, _, _)
checksumLoop(data, i, checksum) ==
  IF i > Len(data) THEN checksum
  ELSE checksumLoop(data, i + 1, Xor(checksum, data[i]))

calculateChecksum(data) == checksumLoop(data, 1, 0)

\* The coefficients of position p: the payload byte, then the k-1 bytes drawn.
coeffsAt(payload, nk, r, p) ==
  <<payload[p]>> \o [i \in 1..(nk - 1) |-> r[p][i]]

\* shareValue of the code: position p's polynomial at x = shareID.
shareValue(payload, nk, r, p, shareID) ==
  evaluatePolynomial(coeffsAt(payload, nk, r, p), shareID)

\* The body of Split after its checks: the share slice the loops over
\* byteIndex and i leave behind.  A share is only assigned in the pass
\* byteIndex = 0, so without any pass every share stays the zero value.
buildShares(payload, nn, nk, r) ==
  [i \in 1..nn |->
     IF Len(payload) = 0 THEN zeroShare
     ELSE [ID |-> i % FieldSize,
           Value |-> [p \in 1..Len(payload) |->
                        shareValue(payload, nk, r, p, i % FieldSize)]]]

\* splitCheck refusing n = 255 as well.
splitCheckBelow255(nn, nk) ==
  IF nk < MinThreshold THEN ErrThreshold
  ELSE IF nn < nk THEN ErrTotal
  ELSE IF nn >= MaxParts THEN ErrTooMany
  ELSE ErrNil

\* The parameter checks of Split: the error, or ErrNil.
splitCheck(nn, nk) ==
  IF nk < MinThreshold THEN ErrThreshold
  ELSE IF nn < nk THEN ErrTotal
  ELSE IF nn > MaxParts THEN ErrTooMany
  ELSE ErrNil

\* Split of src/shamir/shamir.go.  drawn counts the calls of rand.Read.
Split(s, nn, nk, r) ==
  IF splitCheck(nn, nk) # ErrNil
    THEN [shares |-> <<>>, err |-> splitCheck(nn, nk), drawn |-> 0]
    ELSE [shares |-> buildShares(s, nn, nk, r), err |-> ErrNil,
          drawn |-> Len(s) * (nk - 1)]

\* Split of the listing in src/RELEASE.md.
SplitChecksum(s, nn, nk, r) ==
  IF splitCheck(nn, nk) # ErrNil
    THEN [shares |-> <<>>, err |-> splitCheck(nn, nk), drawn |-> 0]
    ELSE LET secretWithChecksum == Append(s, calculateChecksum(s))
         IN  [shares |-> buildShares(secretWithChecksum, nn, nk, r),
              err |-> ErrNil,
              drawn |-> Len(secretWithChecksum) * (nk - 1)]

\* The number of value positions Split makes polynomials for.
payloadLen(im, s) == IF im = Plain THEN Len(s) ELSE Len(s) + 1

-----------------------------------------------------------------------------
(* Combine. *)

\* combineCheck letting a single share through.
combineCheckOneShare(shares) ==
  IF Len(shares) < 1 THEN ErrFewShares
  ELSE IF \E i \in 2..Len(shares) :
            Len(shares[i].Value) # Len(shares[1].Value) THEN ErrLength
  ELSE ErrNil

\* combineCheck refusing only the shares shorter than the first.
combineCheckShorterOnly(shares) ==
  IF Len(shares) < MinShares THEN ErrFewShares
  ELSE IF \E i \in 2..Len(shares) :
            Len(shares[i].Value) < Len(shares[1].Value) THEN ErrLength
  ELSE ErrNil

\* The checks of Combine before any interpolation: the error, or ErrNil.
combineCheck(shares) ==
  IF Len(shares) < MinShares THEN ErrFewShares
  ELSE IF \E i \in 2..Len(shares) :
            Len(shares[i].Value) # Len(shares[1].Value) THEN ErrLength
  ELSE ErrNil

\* The loop over byteIndex: one interpolation per value position.
interpolateAll(shares) ==
  [p \in 1..Len(shares[1].Value) |->
     lagrangeInterpolation([i \in 1..Len(shares) |-> shares[i].ID],
                           [i \in 1..Len(shares) |-> shares[i].Value[p]])]

\* Combine of src/shamir/shamir.go.  interpolated counts the calls of
\* lagrangeInterpolation.
Combine(shares) ==
  IF combineCheck(shares) # ErrNil
    THEN [secret |-> <<>>, err |-> combineCheck(shares), interpolated |-> 0]
    ELSE [secret |-> interpolateAll(shares), err |-> ErrNil,
          interpolated |-> Len(shares[1].Value)]

\* CombineChecksum handing out the interpolated bytes together with the
\* checksum error.
CombineChecksumLeak(shares) ==
  IF combineCheck(shares) # ErrNil
    THEN [secret |-> <<>>, err |-> combineCheck(shares), interpolated |-> 0]
    ELSE LET secretWithChecksum == interpolateAll(shares)
             len == Len(secretWithChecksum)
         IN  IF len < 1
               THEN [secret |-> <<>>, err |-> ErrTooShort,
                     interpolated |-> len]
             ELSE IF secretWithChecksum[len] #
                       calculateChecksum(SubSeq(secretWithChecksum, 1, len - 1))
               THEN [secret |-> secretWithChecksum, err |-> ErrChecksum,
                     interpolated |-> len]
             ELSE [secret |-> SubSeq(secretWithChecksum, 1, len - 1),
                   err |-> ErrNil, interpolated |-> len]

\* Combine of the listing in src/RELEASE.md.
CombineChecksum(shares) ==
  IF combineCheck(shares) # ErrNil
    THEN [secret |-> <<>>, err |-> combineCheck(shares), interpolated |-> 0]
    ELSE LET secretWithChecksum == interpolateAll(shares)
             len == Len(secretWithChecksum)
         IN  IF len < 1
               THEN [secret |-> <<>>, err |-> ErrTooShort,
                     interpolated |-> len]
             ELSE IF secretWithChecksum[len] #
                       calculateChecksum(SubSeq(secretWithChecksum, 1, len - 1))
               THEN [secret |-> <<>>, err |-> ErrChecksum,
                     interpolated |-> len]
             ELSE [secret |-> SubSeq(secretWithChecksum, 1, len - 1),
                   err |-> ErrNil, interpolated |-> len]

-----------------------------------------------------------------------------
(* The text form of a share.  A text is a sequence of one-character strings.
   fmt.Sprintf and fmt.Sscanf are modelled by what they do for the verbs and
   operands of the calls in ShareToString and StringToShare, on texts
   without a newline. *)

DecDigits == <<"0", "1", "2", "3", "4", "5", "6", "7", "8", "9">>
HexLower == DecDigits \o <<"a", "b", "c", "d", "e", "f">>

\* The characters fmt's scanner takes for a number: the digits of the base
\* and the underscore.
DecChars == {DecDigits[i] : i \in DOMAIN DecDigits}
HexChars == DecChars \cup {"a", "b", "c", "d", "e", "f",
                           "A", "B", "C", "D", "E", "F"}
Underscore == "_"
isSpace(c) == c \in {" ", "\t"}

\* The value of a digit of base 16 and below.
digitValue(c) ==
  CASE c = "0" -> 0 [] c = "1" -> 1 [] c = "2" -> 2 [] c = "3" -> 3
    [] c = "4" -> 4 [] c = "5" -> 5 [] c = "6" -> 6 [] c = "7" -> 7
    [] c = "8" -> 8 [] c = "9" -> 9
    [] c \in {"a", "A"} -> 10 [] c \in {"b", "B"} -> 11
    [] c \in {"c", "C"} -> 12 [] c \in {"d", "D"} -> 13
    [] c \in {"e", "E"} -> 14 [] c \in {"f", "F"} -> 15

\* %d of Sprintf for a byte.
RECURSIVE decimal(_)
decimal(x) ==
  IF x < 10 THEN <<DecDigits[x + 1]>>
  ELSE decimal(x \div 10) \o <<DecDigits[(x % 10) + 1]>>

\* hexByte printing the byte as a number, without the leading zero.
hexByteNoPad(b) ==
  IF b < 16 THEN <<HexLower[b + 1]>>
  ELSE <<HexLower[(b \div 16) + 1], HexLower[(b % 16) + 1]>>

\* %x of Sprintf for one byte of a byte slice: two lowercase digits.
hexByte(b) == <<HexLower[(b \div 16) + 1], HexLower[(b % 16) + 1]>>

\* %x of Sprintf for a byte slice.
RECURSIVE hexString(_)
hexString(v) ==
  IF Len(v) = 0 THEN <<>> ELSE hexByte(Head(v)) \o hexString(Tail(v))

ShareToString(share) ==
  decimal(share.ID) \o <<":">> \o hexString(share.Value)

\* The scanner's SkipSpace: text without its leading spaces.
RECURSIVE skipSpace(_)
skipSpace(t) ==
  IF Len(t) > 0 /\ isSpace(Head(t)) THEN skipSpace(Tail(t)) ELSE t

\* The length of the longest prefix of t, of at most w characters, made of
\* characters of S.
RECURSIVE runLength(_, _, _)
runLength(t, S, w) ==
  IF w = 0 \/ Len(t) = 0 \/ Head(t) \notin S THEN 0
  ELSE 1 + runLength(Tail(t), S, w - 1)

\* strconv.ParseUint(tok, base, 64) for a token of digits and underscores:
\* -1 for a syntax error (an underscore), the number otherwise.
RECURSIVE parseUint(_, _, _)
parseUint(tok, base, acc) ==
  IF Len(tok) = 0 THEN acc
  ELSE IF Head(tok) = Underscore THEN -1
  ELSE parseUint(Tail(tok), base, acc * base + digitValue(Head(tok)))

\* scanUint for an operand of 8 bits: the number at the start of t, read
\* with the digits of base and at most w characters wide.
scanUint(t, base, w) ==
  LET in == skipSpace(t)
      digits == (IF base = 16 THEN HexChars ELSE DecChars) \cup {Underscore}
      len == runLength(in, digits, w)
      tok == SubSeq(in, 1, len)
      i == parseUint(tok, base, 0)
  IN  IF len = 0 \/ i < 0 \/ i >= FieldSize
        THEN [ok |-> FALSE, value |-> 0, rest |-> in]
        ELSE [ok |-> TRUE, value |-> i, rest |-> SubSeq(in, len + 1, Len(in))]

\* scanWord taking an end of input for an empty word.
scanWordOrNone(t) ==
  LET in == skipSpace(t)
      len == runLength(in, {in[i] : i \in DOMAIN in} \ {" ", "\t"}, Len(in))
  IN  [ok |-> TRUE, word |-> SubSeq(in, 1, len)]

\* %s of Sscanf: the next word of t, after leading spaces; an end of input
\* in place of the word is an error.
scanWord(t) ==
  LET in == skipSpace(t)
      len == runLength(in, {in[i] : i \in DOMAIN in} \ {" ", "\t"}, Len(in))
  IN  IF len = 0 THEN [ok |-> FALSE, word |-> <<>>]
      ELSE [ok |-> TRUE, word |-> SubSeq(in, 1, len)]

\* fmt.Sscanf(s, "%d:%s", &share.ID, &hexValue): the operands it set and
\* whether it set both without an error.
scanPart(s) ==
  LET id == scanUint(s, 10, Len(s))
      colon == id.ok /\ Len(id.rest) > 0 /\ Head(id.rest) = ":"
      word == IF colon THEN scanWord(Tail(id.rest))
              ELSE [ok |-> FALSE, word |-> <<>>]
  IN  [ok |-> id.ok /\ colon /\ word.ok, ID |-> id.value,
       hexValue |-> word.word]

\* The width of %02x.
PairWidth == 2

\* scanHexPair reading one digit of the pair only.
scanHexPairOneDigit(pair) == scanUint(pair, 16, 1)

\* fmt.Sscanf(pair, "%02x", &b).  The scan takes the leading hex digits of
\* the pair and ignores what follows them.
scanHexPair(pair) == scanUint(pair, 16, PairWidth)

ErrPartFormat == "invalid part format"
ErrHexFormat == "invalid hex format"

\* What StringToShare returns; for a call that ends in a run-time panic
\* instead of returning, panicked is TRUE.
decodeError(err) == [share |-> zeroShare, err |-> err, panicked |-> FALSE]
decodePanic == [share |-> zeroShare, err |-> "panic", panicked |-> TRUE]

\* The loop of StringToShare over the pairs of hexValue, from index i
\* (0-based, as in the code) with the bytes decoded so far.  The slice
\* hexValue[i:i+2] is out of range when one character is left.
RECURSIVE hexLoop(_, _, _, _)
hexLoop(id, hexValue, i, value) ==
  IF i >= Len(hexValue)
    THEN [share |-> [ID |-> id, Value |-> value], err |-> ErrNil,
          panicked |-> FALSE]
  ELSE IF i + PairWidth > Len(hexValue) THEN decodePanic
  ELSE LET b == scanHexPair(SubSeq(hexValue, i + 1, i + PairWidth))
       IN  IF ~b.ok THEN decodeError(ErrHexFormat)
           ELSE hexLoop(id, hexValue, i + PairWidth, Append(value, b.value))

\* StringToShare of src/shamir/shamir.go.
StringToShare(s) ==
  LET part == scanPart(s)
  IN  IF ~part.ok THEN decodeError(ErrPartFormat)
      ELSE hexLoop(part.ID, part.hexValue, 0, <<>>)

\* StringToShare of the listing in src/RELEASE.md.
StringToShareChecksum(s) ==
  LET part == scanPart(s)
  IN  IF ~part.ok THEN decodeError(ErrPartFormat)
      ELSE IF Len(part.hexValue) % 2 # 0 THEN decodeError(ErrHexFormat)
      ELSE hexLoop(part.ID, part.hexValue, 0, <<>>)

-----------------------------------------------------------------------------
(* The calling program: one run splits a secret, keeps some of the shares,
   perhaps alters a byte of one, and combines them; or it combines a share
   list that comes from elsewhere. *)

\* The sequences over S of length 0..m.
SeqsUpTo(S, m) == UNION {[1..l -> S] : l \in 0..m}

Secrets == SeqsUpTo(SecretBytes, MaxLen)

\* What Split and Combine return before they are called.
noSplit == [shares |-> <<>>, err |-> "not called", drawn |-> 0]
noCombine == [secret |-> <<>>, err |-> "not called", interpolated |-> 0]
noProbe == [op |-> "none"]
\* The exit status of a process that has not ended.
running == "running"

\* The random bytes one Split call consumes: k-1 per value position, none
\* when the parameters are refused.
Draws(im, s, nn, nk) ==
  IF splitCheck(nn, nk) # ErrNil THEN {<<>>}
  ELSE [1..payloadLen(im, s) -> [1..(nk - 1) -> RandBytes]]

\* The call of Split of the copy in use.
callSplit(im, s, nn, nk, r) ==
  IF im = Plain THEN Split(s, nn, nk, r) ELSE SplitChecksum(s, nn, nk, r)

\* The call of Combine of the copy in use.
callCombine(im, shares) ==
  IF im = Plain THEN Combine(shares) ELSE CombineChecksum(shares)

\* The elements of set S of numbers in increasing order.
RECURSIVE sorted(_)
sorted(S) ==
  IF S = {} THEN <<>>
  ELSE LET m == CHOOSE x \in S : \A y \in S : x <= y
       IN  <<m>> \o sorted(S \ {m})

\* shares[i] for the i of idx, in the order of shares.
pick(shares, idx) == [j \in 1..Cardinality(idx) |-> shares[sorted(idx)[j]]]

\* shares with byte p of share i changed by the XOR difference d.
alter(shares, i, p, d) ==
  [shares EXCEPT ![i].Value[p] = Xor(shares[i].Value[p], d)]

ForgedShares ==
  {[ID |-> id, Value |-> v] : id \in ForgedIds,
                              v \in SeqsUpTo(ForgedBytes, MaxValLen)}

Init ==
  /\ impl \in Impls
  /\ pc = "init"
  /\ secret = <<>>
  /\ n = 0
  /\ k = 0
  /\ rnd = <<>>
  /\ splitOut = noSplit
  /\ held = <<>>
  /\ origin = "none"
  /\ combOut = noCombine
  /\ probe = noProbe
  /\ stdout = <<>>
  /\ exit = running
  /\ tables = tablesBuilt
  /\ memory = <<>>
  /\ goroutines = <<>>

\* Split(secret, n, k) with n, k small.
SplitOp ==
  /\ pc = "init"
  /\ \E s \in Secrets, nn \in 0..MaxN, nk \in 0..MaxN :
       \E r \in Draws(impl, s, nn, nk) :
         /\ secret' = s
         /\ n' = nn
         /\ k' = nk
         /\ rnd' = r
         /\ splitOut' = callSplit(impl, s, nn, nk, r)
  /\ pc' = "split"
  /\ UNCHANGED <<impl, held, origin, combOut, probe,
               stdout, exit,
               tables, memory, goroutines>>

\* The caller keeps some of the shares Split returned, in Split's order.
Select ==
  /\ pc = "split"
  /\ splitOut.err = ErrNil
  /\ \E idx \in SUBSET (1..Len(splitOut.shares)) :
       held' = pick(splitOut.shares, idx)
  /\ origin' = "subset"
  /\ pc' = "select"
  /\ UNCHANGED <<impl, secret, n, k, rnd, splitOut, combOut, probe,
               stdout, exit,
               tables, memory, goroutines>>

\* One byte of one kept share is altered.
Tamper ==
  /\ pc = "select"
  /\ \E i \in 1..Len(held) :
       \E p \in 1..Len(held[i].Value), d \in Deltas :
         held' = alter(held, i, p, d)
  /\ origin' = "tampered"
  /\ pc' = "tamper"
  /\ UNCHANGED <<impl, secret, n, k, rnd, splitOut, combOut, probe,
               stdout, exit,
               tables, memory, goroutines>>

\* The caller has a share list that no Split of this run produced.
Forge ==
  /\ pc = "init"
  /\ held' \in SeqsUpTo(ForgedShares, MaxForged)
  /\ origin' = "forged"
  /\ pc' = "forge"
  /\ UNCHANGED <<impl, secret, n, k, rnd, splitOut, combOut, probe,
               stdout, exit,
               tables, memory, goroutines>>

\* Combine(held).
CombineOp ==
  /\ pc \in {"select", "tamper", "forge"}
  /\ combOut' = callCombine(impl, held)
  /\ pc' = "combine"
  /\ UNCHANGED <<impl, secret, n, k, rnd, splitOut, held, origin, probe,
               stdout, exit,
               tables, memory, goroutines>>

Next == SplitOp \/ Select \/ Tamper \/ Forge \/ CombineOp

Spec == Init /\ [][Next]_vars

-----------------------------------------------------------------------------
(* Split at the limits of its parameters.  With n up to 255 the draws of one
   call cannot be enumerated: here every draw of a call delivers the same
   byte. *)

ParamSecrets == {<<>>, <<65, 66>>}
ParamN == {-1, 0, 1, 2, 3, 5, 254, 255, 256, 300}
ParamK == {-1, 0, 1, 2, 3, 5, 256}

\* The draws of one call when each delivers byte c.
constantDraws(im, s, nn, nk, c) ==
  IF splitCheck(nn, nk) # ErrNil THEN <<>>
  ELSE [p \in 1..payloadLen(im, s) |-> [i \in 1..(nk - 1) |-> c]]

InitParams ==
  /\ impl \in Impls
  /\ pc = "params"
  /\ secret = <<>>
  /\ n = 0
  /\ k = 0
  /\ rnd = <<>>
  /\ splitOut = noSplit
  /\ held = <<>>
  /\ origin = "none"
  /\ combOut = noCombine
  /\ probe = noProbe
  /\ stdout = <<>>
  /\ exit = running
  /\ tables = tablesBuilt
  /\ memory = <<>>
  /\ goroutines = <<>>

\* Split(secret, n, k) with n and k around the limits 2, k and 255.
SplitParams ==
  /\ pc = "params"
  /\ \E s \in ParamSecrets, nn \in ParamN, nk \in ParamK, c \in RandBytes :
       /\ secret' = s
       /\ n' = nn
       /\ k' = nk
       /\ rnd' = constantDraws(impl, s, nn, nk, c)
       /\ splitOut' = callSplit(impl, s, nn, nk, constantDraws(impl, s, nn, nk, c))
  /\ pc' = "split"
  /\ UNCHANGED <<impl, held, origin, combOut, probe,
               stdout, exit,
               tables, memory, goroutines>>

NextParams == SplitParams

SpecParams == InitParams /\ [][NextParams]_vars

-----------------------------------------------------------------------------
(* What k-1 shares show of one payload byte.  For a payload byte at position
   p and k-1 share ids, Split is run over every choice of the k-1 random
   coefficients of that position (the other positions' draws do not enter
   shareValue at p), and the distinct tuples of share bytes at those ids are
   counted.  There are 256^(k-1) choices and 256^(k-1) tuples: when the
   choices yield 256^(k-1) distinct tuples, every tuple comes from exactly
   one choice, whatever the payload byte is. *)

SecrecyKs == {2, 3}
SecrecyIds == {1, 2, 255}

\* The payload bytes tried for threshold nk.
SecrecyBytes(nk) == IF nk = 2 THEN Byte ELSE {0, 65}

\* The payload Split makes of secret s.
payloadOf(im, s) == IF im = Plain THEN s ELSE Append(s, calculateChecksum(s))

\* The tuples of share bytes at ids, position p, over all coefficient choices.
ShareTuples(payload, nk, p, ids) ==
  {[x \in ids |-> shareValue(payload, nk, [q \in 1..Len(payload) |-> c], p, x)] :
     c \in [1..(nk - 1) -> Byte]}

InitSecrecy ==
  /\ impl \in Impls
  /\ pc = "secrecy"
  /\ secret = <<>>
  /\ n = 0
  /\ k = 0
  /\ rnd = <<>>
  /\ splitOut = noSplit
  /\ held = <<>>
  /\ origin = "none"
  /\ combOut = noCombine
  /\ probe = noProbe
  /\ stdout = <<>>
  /\ exit = running
  /\ tables = tablesBuilt
  /\ memory = <<>>
  /\ goroutines = <<>>

\* Count the share tuples of one payload byte at k-1 ids.
CountTuples ==
  /\ pc = "secrecy"
  /\ \E nk \in SecrecyKs :
       \E b \in SecrecyBytes(nk),
          ids \in {S \in SUBSET SecrecyIds : Cardinality(S) = nk - 1} :
         \E p \in 1..payloadLen(impl, <<b>>) :
           /\ secret' = <<b>>
           /\ k' = nk
           /\ probe' = [op |-> "secrecy", ids |-> ids, pos |-> p,
                        byte |-> payloadOf(impl, <<b>>)[p],
                        tuples |-> Cardinality(
                           ShareTuples(payloadOf(impl, <<b>>), nk, p, ids))]
  /\ pc' = "counted"
  /\ UNCHANGED <<impl, n, rnd, splitOut, held, origin, combOut,
               stdout, exit,
               tables, memory, goroutines>>

NextSecrecy == CountTuples

SpecSecrecy == InitSecrecy /\ [][NextSecrecy]_vars

-----------------------------------------------------------------------------
(* The codec on its own: a share is turned into text and the text back into
   a share, or a text from elsewhere is turned into a share. *)

\* The longest value of a share that is turned into text.
MaxCodecLen == 2
\* The longest text after the id and the colon of a text from elsewhere.
MaxHexLen == 3

\* The bytes of the values turned into text.
CodecBytes == {0, 10, 65, 255}
\* The shares turned into text: every id a byte can hold.
CodecShares ==
  {[ID |-> id, Value |-> v] : id \in Byte,
                              v \in SeqsUpTo(CodecBytes, MaxCodecLen)}

\* Texts from elsewhere: something in the place of the id, a colon or none,
\* and up to MaxHexLen characters.
IdTexts == {<<>>, <<"0">>, <<"7">>, <<"0", "7">>, <<" ", "7">>, <<"7", " ">>,
            <<"2", "5", "5">>, <<"2", "5", "6">>, <<"3", "0", "0">>,
            <<"-", "1">>, <<"1", "_", "0">>, <<"x">>}
Separators == {<<>>, <<":">>}
TailChars == {"0", "4", "a", "F", "g", " ", ":"}
Texts ==
  {id \o sep \o tail : id \in IdTexts, sep \in Separators,
                       tail \in SeqsUpTo(TailChars, MaxHexLen)}

\* The call of StringToShare of the copy in use.
callStringToShare(im, s) ==
  IF im = Plain THEN StringToShare(s) ELSE StringToShareChecksum(s)

InitCodec ==
  /\ impl \in Impls
  /\ pc = "codec"
  /\ secret = <<>>
  /\ n = 0
  /\ k = 0
  /\ rnd = <<>>
  /\ splitOut = noSplit
  /\ held = <<>>
  /\ origin = "none"
  /\ combOut = noCombine
  /\ probe = noProbe
  /\ stdout = <<>>
  /\ exit = running
  /\ tables = tablesBuilt
  /\ memory = <<>>
  /\ goroutines = <<>>

\* ShareToString(share).
EncodeOp ==
  /\ pc = "codec"
  /\ \E share \in CodecShares :
       probe' = [op |-> "encode", share |-> share,
                 text |-> ShareToString(share)]
  /\ pc' = "encoded"
  /\ UNCHANGED <<impl, secret, n, k, rnd, splitOut, held, origin, combOut,
               stdout, exit,
               tables, memory, goroutines>>

\* StringToShare(ShareToString(share)).
DecodeEncoded ==
  /\ pc = "encoded"
  /\ probe' = [op |-> "roundtrip", share |-> probe.share, text |-> probe.text,
               out |-> callStringToShare(impl, probe.text)]
  /\ pc' = "decoded"
  /\ UNCHANGED <<impl, secret, n, k, rnd, splitOut, held, origin, combOut,
               stdout, exit,
               tables, memory, goroutines>>

\* StringToShare(text) for a text from elsewhere.
DecodeText ==
  /\ pc = "codec"
  /\ \E text \in Texts :
       probe' = [op |-> "decode", text |-> text,
                 out |-> callStringToShare(impl, text)]
  /\ pc' = "decoded"
  /\ UNCHANGED <<impl, secret, n, k, rnd, splitOut, held, origin, combOut,
               stdout, exit,
               tables, memory, goroutines>>

NextCodec == EncodeOp \/ DecodeEncoded \/ DecodeText

SpecCodec == InitCodec /\ [][NextCodec]_vars

-----------------------------------------------------------------------------
(* The field operations on their own: the caller looks up the inverse of a
   byte and multiplies the byte by it, both through the tables. *)

InitField ==
  /\ impl \in Impls
  /\ pc = "field"
  /\ secret = <<>>
  /\ n = 0
  /\ k = 0
  /\ rnd = <<>>
  /\ splitOut = noSplit
  /\ held = <<>>
  /\ origin = "none"
  /\ combOut = noCombine
  /\ probe = noProbe
  /\ stdout = <<>>
  /\ exit = running
  /\ tables = tablesBuilt
  /\ memory = <<>>
  /\ goroutines = <<>>

\* gfMul(a, gfInv(a)).
InvertOp ==
  /\ pc = "field"
  /\ \E a \in Byte :
       probe' = [op |-> "inverse", a |-> a, inv |-> gfInv(a),
                 product |-> gfMul(a, gfInv(a))]
  /\ pc' = "inverted"
  /\ UNCHANGED <<impl, secret, n, k, rnd, splitOut, held, origin, combOut,
               stdout, exit,
               tables, memory, goroutines>>

\* gfMulPrimitive(a, b), and the same product through the table.
MultiplyOp ==
  /\ pc = "field"
  /\ \E a \in Byte, b \in Byte :
       probe' = [op |-> "multiply", a |-> a, b |-> b,
                 primitive |-> gfMulPrimitive(a, b), product |-> gfMul(a, b)]
  /\ pc' = "multiplied"
  /\ UNCHANGED <<impl, secret, n, k, rnd, splitOut, held, origin, combOut,
               stdout, exit,
               tables, memory, goroutines>>

\* The coefficient vectors and points evaluatePolynomial is called on.
MaxCoeffs == 3

CoeffBytes == {0, 1, 173}

CoeffVectors == SeqsUpTo(CoeffBytes, MaxCoeffs)

\* evaluatePolynomial(coeffs, x).
EvaluateOp ==
  /\ pc = "field"
  /\ \E coeffs \in CoeffVectors, x \in Byte :
       probe' = [op |-> "evaluate", coeffs |-> coeffs, x |-> x,
                 value |-> evaluatePolynomial(coeffs, x)]
  /\ pc' = "evaluated"
  /\ UNCHANGED <<impl, secret, n, k, rnd, splitOut, held, origin, combOut,
               stdout, exit,
               tables, memory, goroutines>>

NextField == InvertOp \/ MultiplyOp \/ EvaluateOp

SpecField == InitField /\ [][NextField]_vars

-----------------------------------------------------------------------------
(* The random source as Split uses it.  The source is a stream of deliveries,
   one per call of rand.Read; a delivery is a byte, or a failure that leaves
   the one-byte buffer as make zeroed it.  The process calls Split up to
   MaxCalls times on the one source. *)

MaxCalls == 2

DrawSecrets == {<<>>, <<65>>}

\* <<n, k>>.
DrawParams == {<<2, 2>>, <<3, 2>>, <<3, 3>>, <<1, 2>>}

Deliveries == {[err |-> FALSE, byte |-> 173], [err |-> TRUE, byte |-> 0]}

\* randomBytes[0] after rand.Read(randomBytes): the error is not looked at.
readByte(d) == IF d.err THEN 0 ELSE d.byte

\* drawIndex with the coefficients drawn once for all positions of a call.
drawIndexPerCall(nk, p, i) == i

\* The ordinal, among the rand.Read calls of one Split, of the call that
\* fills coeffs[i] of value position p (1-based): the loop over i runs inside
\* the loop over byteIndex, each pass with a new buffer.
drawIndex(nk, p, i) == (p - 1) * (nk - 1) + i

\* The number of rand.Read calls of one Split.
drawsNeeded(im, s, nn, nk) ==
  IF splitCheck(nn, nk) # ErrNil THEN 0 ELSE payloadLen(im, s) * (nk - 1)

\* The coefficients 1..k-1 of every position, read from the stream after
\* the first `cursor` deliveries.
coefficientsFrom(stream, cursor, im, s, nn, nk) ==
  IF splitCheck(nn, nk) # ErrNil THEN <<>>
  ELSE [p \in 1..payloadLen(im, s) |->
          [i \in 1..(nk - 1) |->
             readByte(stream[cursor + drawIndex(nk, p, i)])]]

InitDraws ==
  /\ impl \in Impls
  /\ pc = "source"
  /\ secret = <<>>
  /\ n = 0
  /\ k = 0
  /\ rnd = <<>>
  /\ splitOut = noSplit
  /\ held = <<>>
  /\ origin = "none"
  /\ combOut = noCombine
  /\ probe = [op |-> "source", stream |-> <<>>, calls |-> <<>>]
  /\ stdout = <<>>
  /\ exit = running
  /\ tables = tablesBuilt
  /\ memory = <<>>
  /\ goroutines = <<>>

\* Split(s, n, k) drawing from the source.
SplitDrawing ==
  /\ pc \in {"source", "drawn"}
  /\ Len(probe.calls) < MaxCalls
  /\ \E s \in DrawSecrets, pr \in DrawParams :
       \E ds \in [1..drawsNeeded(impl, s, pr[1], pr[2]) -> Deliveries] :
         \E st \in {probe.stream \o ds} :
           \E r \in {coefficientsFrom(st, Len(probe.stream), impl, s,
                                      pr[1], pr[2])} :
             \E out \in {callSplit(impl, s, pr[1], pr[2], r)} :
               /\ secret' = s
               /\ n' = pr[1]
               /\ k' = pr[2]
               /\ rnd' = r
               /\ splitOut' = out
               /\ probe' = [op |-> "draws", stream |-> st,
                            calls |-> Append(probe.calls,
                                       [cursor |-> Len(probe.stream),
                                        secret |-> s, n |-> pr[1],
                                        k |-> pr[2], out |-> out])]
  /\ pc' = "drawn"
  /\ UNCHANGED <<impl, held, origin, combOut, stdout, exit,
               tables, memory, goroutines>>

NextDraws == SplitDrawing

SpecDraws == InitDraws /\ [][NextDraws]_vars

-----------------------------------------------------------------------------

(* Combine on the same shares in another order: the caller combines a list
   and then the same list rearranged. *)

\* The rearrangements of m places.
Rearrangements(m) ==
  {f \in [1..m -> 1..m] : \A i, j \in 1..m : i # j => f[i] # f[j]}

\* Combine(held rearranged).
Recombine ==
  /\ pc = "combine"
  /\ \E perm \in Rearrangements(Len(held)) :
       \E shares \in {[j \in 1..Len(held) |-> held[perm[j]]]} :
         probe' = [op |-> "reorder", shares |-> shares,
                   out |-> callCombine(impl, shares)]
  /\ pc' = "recombined"
  /\ UNCHANGED <<impl, secret, n, k, rnd, splitOut, held, origin, combOut,
               stdout, exit,
               tables, memory, goroutines>>

NextOrder == Forge \/ CombineOp \/ Recombine

SpecOrder == Init /\ [][NextOrder]_vars

-----------------------------------------------------------------------------

(* The shares of a Split written as texts and read back, as when the lines
   the split command prints are given to the combine command. *)

\* StringToShare(ShareToString(share)) for every share Split returned.
ReparseShares ==
  /\ pc = "split"
  /\ splitOut.err = ErrNil
  /\ \E texts \in {[i \in 1..Len(splitOut.shares) |->
                      ShareToString(splitOut.shares[i])]} :
       \E outs \in {[i \in 1..Len(texts) |->
                       callStringToShare(impl, texts[i])]} :
         probe' = [op |-> "reparse", texts |-> texts, outs |-> outs]
  /\ pc' = "reparsed"
  /\ UNCHANGED <<impl, secret, n, k, rnd, splitOut, held, origin, combOut,
               stdout, exit,
               tables, memory, goroutines>>

NextReparse == SplitOp \/ ReparseShares

SpecReparse == Init /\ [][NextReparse]_vars

-----------------------------------------------------------------------------

(* The caller's memory.  The secret handed to Split is a slice of an array
   of the caller: its first len bytes, with the rest of the array as spare
   capacity.  append writes into the array of its first operand when the
   capacity allows, and into a new array otherwise. *)

MaxCap == 2

BufferArrays == SeqsUpTo(SecretBytes, MaxCap)

\* <<n, k>>.
BufferParams == {<<2, 2>>, <<1, 2>>}

\* The array behind slice array[:len] after append(array[:len], b).
appendInPlace(array, len, b) ==
  IF len < Len(array) THEN [array EXCEPT ![len + 1] = b] ELSE array

\* The caller's array after Split(array[:len], n, k) of src/shamir/shamir.go,
\* which only reads secret.
arrayAfterSplit(array, len, nn, nk) == array

\* The caller's array after Split(array[:len], n, k) of the listing in
\* src/RELEASE.md: after the parameter checks,
\* secretWithChecksum := append(secret, checksum).
arrayAfterSplitChecksum(array, len, nn, nk) ==
  IF splitCheck(nn, nk) # ErrNil THEN array
  ELSE appendInPlace(array, len, calculateChecksum(SubSeq(array, 1, len)))

callArrayAfterSplit(im, array, len, nn, nk) ==
  IF im = Plain THEN arrayAfterSplit(array, len, nn, nk)
  ELSE arrayAfterSplitChecksum(array, len, nn, nk)

\* The shares of the caller after Combine(shares): Combine copies each
\* share in its range loop and assigns only to slices it made.
sharesAfterCombine(shares) == shares

InitBuffers ==
  /\ impl \in Impls
  /\ pc = "buffer"
  /\ secret = <<>>
  /\ n = 0
  /\ k = 0
  /\ rnd = <<>>
  /\ splitOut = noSplit
  /\ held = <<>>
  /\ origin = "none"
  /\ combOut = noCombine
  /\ probe = noProbe
  /\ stdout = <<>>
  /\ exit = running
  /\ tables = tablesBuilt
  /\ memory = <<>>
  /\ goroutines = <<>>

\* Split(array[:len], n, k).
SplitSlice ==
  /\ pc = "buffer"
  /\ \E array \in BufferArrays, pr \in BufferParams :
       \E len \in 0..Len(array) :
         \E s \in {SubSeq(array, 1, len)} :
           \E r \in Draws(impl, s, pr[1], pr[2]) :
             /\ secret' = s
             /\ n' = pr[1]
             /\ k' = pr[2]
             /\ rnd' = r
             /\ splitOut' = callSplit(impl, s, pr[1], pr[2], r)
             /\ probe' = [op |-> "slice", array |-> array, len |-> len,
                          after |-> callArrayAfterSplit(impl, array, len,
                                                        pr[1], pr[2])]
  /\ pc' = "sliced"
  /\ UNCHANGED <<impl, held, origin, combOut, stdout, exit,
               tables, memory, goroutines>>

\* Combine(shares) on the shares Split returned.
CombineGiven ==
  /\ pc = "sliced"
  /\ splitOut.err = ErrNil
  /\ combOut' = callCombine(impl, splitOut.shares)
  /\ held' = sharesAfterCombine(splitOut.shares)
  /\ origin' = "given"
  /\ pc' = "combined"
  /\ UNCHANGED <<impl, secret, n, k, rnd, splitOut, probe, stdout, exit,
               tables, memory, goroutines>>

NextBuffers == SplitSlice \/ CombineGiven

SpecBuffers == InitBuffers /\ [][NextBuffers]_vars

-----------------------------------------------------------------------------

(* Concurrent calls.  The Go runtime runs init, and with it initGF, to the
   end before main starts; main then has up to MaxGoroutines goroutines, each
   making one call of the package.  The secrets given to Split are slices of
   one array of the caller.  A call of Split takes two steps, the part up to
   the making of its payload and the loops over the payload; the other calls
   take one. *)

MaxGoroutines == 2

Goroutines == 1..MaxGoroutines

SharedArrays == {<<65, 66>>}

ConcurrentShareLists ==
  {<<[ID |-> 1, Value |-> <<0>>], [ID |-> 2, Value |-> <<0>>]>>,
   <<[ID |-> 1, Value |-> <<0>>], [ID |-> 2, Value |-> <<1>>]>>}

\* The calls a goroutine may make when the caller's array is `array`; each
\* rand.Read of a Split delivers the call's byte.
ConcurrentCalls(array) ==
  {[op |-> "Split", len |-> l, n |-> 2, k |-> 2, byte |-> b] :
     l \in 0..Len(array), b \in RandBytes}
  \cup {[op |-> "Combine", shares |-> shares] :
          shares \in ConcurrentShareLists}
  \cup {[op |-> "ShareToString", share |-> [ID |-> 1, Value |-> <<65>>]]}
  \cup {[op |-> "StringToShare", text |-> <<"1", ":", "4", "1">>]}

\* What call c returns when nothing else runs, with the caller's array as
\* mem.
aloneResult(im, c, mem) ==
  IF c.op = "Split"
    THEN LET s == SubSeq(mem, 1, c.len)
             out == callSplit(im, s, c.n, c.k,
                              constantDraws(im, s, c.n, c.k, c.byte))
         IN  [shares |-> out.shares, err |-> out.err]
  ELSE IF c.op = "Combine"
    THEN [secret |-> callCombine(im, c.shares).secret,
          err |-> callCombine(im, c.shares).err]
  ELSE IF c.op = "ShareToString" THEN [text |-> ShareToString(c.share)]
  ELSE callStringToShare(im, c.text)

\* Split up to its loops.  src/shamir/shamir.go goes on with secret itself,
\* a slice of the caller's array.  The listing in src/RELEASE.md goes on with
\* append(secret, checksum): the same array with the checksum stored behind
\* the secret when the capacity allows, a new array otherwise.
preparePayload(im, c, mem) ==
  IF im = Plain
    THEN [memory |-> mem,
          payload |-> [shared |-> TRUE, len |-> c.len, bytes |-> <<>>]]
  ELSE IF c.len < Len(mem)
    THEN [memory |-> appendInPlace(mem, c.len,
                                   calculateChecksum(SubSeq(mem, 1, c.len))),
          payload |-> [shared |-> TRUE, len |-> c.len + 1, bytes |-> <<>>]]
  ELSE [memory |-> mem,
        payload |-> [shared |-> FALSE, len |-> c.len + 1,
                     bytes |-> Append(SubSeq(mem, 1, c.len),
                                      calculateChecksum(
                                        SubSeq(mem, 1, c.len)))]]

\* The bytes the loops of Split read as their payload.
payloadRead(payload, mem) ==
  IF payload.shared THEN SubSeq(mem, 1, payload.len) ELSE payload.bytes

\* The loops of Split over the payload it reads.
splitLoops(c, bytes) ==
  [shares |-> buildShares(bytes, c.n, c.k,
                          [p \in 1..Len(bytes) |->
                             [i \in 1..(c.k - 1) |-> c.byte]]),
   err |-> ErrNil]

\* What a call computes with the tables in state t: the tables hold zeros
\* until initGF has filled them.
withTables(t, result) ==
  IF t.state = "built" THEN result ELSE [tables |-> t.state]

idle == [state |-> "idle"]

InitConcurrent ==
  /\ impl \in Impls
  /\ pc = "boot"
  /\ secret = <<>>
  /\ n = 0
  /\ k = 0
  /\ rnd = <<>>
  /\ splitOut = noSplit
  /\ held = <<>>
  /\ origin = "none"
  /\ combOut = noCombine
  /\ memory \in SharedArrays
  /\ probe = [op |-> "concurrent", array |-> memory]
  /\ stdout = <<>>
  /\ exit = running
  /\ tables = tablesZero
  /\ goroutines = [g \in Goroutines |-> idle]

\* init: initGF fills the tables.
InitGF ==
  /\ pc = "boot"
  /\ tables' = [state |-> "built", writes |-> tables.writes + 1]
  /\ pc' = "main"
  /\ UNCHANGED <<impl, secret, n, k, rnd, splitOut, held, origin, combOut,
               probe, stdout, exit, memory, goroutines>>

\* main starts a goroutine that makes a call.
Go ==
  /\ pc = "main"
  /\ \E g \in Goroutines :
       /\ goroutines[g].state = "idle"
       /\ \E c \in ConcurrentCalls(memory) :
            \E alone \in {aloneResult(impl, c, memory)} :
              goroutines' = [goroutines EXCEPT
                               ![g] = [state |-> "called", call |-> c,
                                       alone |-> alone]]
  /\ UNCHANGED <<impl, pc, secret, n, k, rnd, splitOut, held, origin,
               combOut, probe, stdout, exit, tables, memory>>

\* A goroutine's Split reaches its loops.
Prepare ==
  /\ \E g \in Goroutines :
       /\ goroutines[g].state = "called"
       /\ goroutines[g].call.op = "Split"
       /\ \E prep \in {preparePayload(impl, goroutines[g].call, memory)} :
            /\ memory' = prep.memory
            /\ goroutines' = [goroutines EXCEPT
                                ![g] = [state |-> "prepared",
                                        call |-> goroutines[g].call,
                                        alone |-> goroutines[g].alone,
                                        payload |-> prep.payload]]
  /\ UNCHANGED <<impl, pc, secret, n, k, rnd, splitOut, held, origin,
               combOut, probe, stdout, exit, tables>>

\* A goroutine's call runs to its return.
Compute ==
  /\ \E g \in Goroutines :
       /\ \/ goroutines[g].state = "prepared"
          \/ /\ goroutines[g].state = "called"
             /\ goroutines[g].call.op # "Split"
       /\ \E result \in
            {withTables(tables,
               IF goroutines[g].call.op = "Split"
                 THEN splitLoops(goroutines[g].call,
                                 payloadRead(goroutines[g].payload, memory))
                 ELSE aloneResult(impl, goroutines[g].call, memory))} :
            goroutines' = [goroutines EXCEPT
                             ![g] = [state |-> "returned",
                                     call |-> goroutines[g].call,
                                     alone |-> goroutines[g].alone,
                                     result |-> result]]
  /\ UNCHANGED <<impl, pc, secret, n, k, rnd, splitOut, held, origin,
               combOut, probe, stdout, exit, tables, memory>>

NextConcurrent == InitGF \/ Go \/ Prepare \/ Compute

SpecConcurrent == InitConcurrent /\ [][NextConcurrent]_vars

-----------------------------------------------------------------------------

(* The three operations of the package that return an error, each called on
   its own with inputs it refuses among those it accepts. *)

InitResults ==
  /\ impl \in Impls
  /\ pc \in {"params", "init", "codec"}
  /\ secret = <<>>
  /\ n = 0
  /\ k = 0
  /\ rnd = <<>>
  /\ splitOut = noSplit
  /\ held = <<>>
  /\ origin = "none"
  /\ combOut = noCombine
  /\ probe = noProbe
  /\ stdout = <<>>
  /\ exit = running
  /\ tables = tablesBuilt
  /\ memory = <<>>
  /\ goroutines = <<>>

NextResults == SplitParams \/ Forge \/ CombineOp \/ DecodeText

SpecResults == InitResults /\ [][NextResults]_vars

-----------------------------------------------------------------------------
(* The command-line program of src/main.go: one run of the split command or
   of the combine command.  A printed line is a record of its kind and of
   what the format verbs were filled with. *)

\* The most comma-separated parts in the argument of the combine command.
MaxArgParts == 2

\* The exit statuses: a return from main, os.Exit(1), a run-time panic.
ExitOk == 0
ExitError == 1
ExitPanic == 2

errorLine(prefix, err) == [kind |-> "error", text |-> prefix, err |-> err]
usageLine(text) == [kind |-> "error", text |-> text, err |-> ErrNil]
infoLine(text) == [kind |-> "info", text |-> text]
shareLine(i, share) ==
  [kind |-> "share", index |-> i, text |-> ShareToString(share)]
exampleLine(shares) ==
  [kind |-> "example", first |-> ShareToString(shares[1]),
   second |-> ShareToString(shares[2])]
recoveredLine(s) == [kind |-> "recovered", secret |-> s]

\* strconv.Atoi: an optional sign, then decimal digits only.
atoi(t) ==
  LET signed == Len(t) > 0 /\ Head(t) \in {"+", "-"}
      digits == IF signed THEN Tail(t) ELSE t
  IN  IF Len(digits) = 0 \/ \E i \in DOMAIN digits : digits[i] \notin DecChars
        THEN [ok |-> FALSE, value |-> 0]
        ELSE [ok |-> TRUE,
              value |-> IF signed /\ Head(t) = "-"
                          THEN 0 - parseUint(digits, 10, 0)
                          ELSE parseUint(digits, 10, 0)]

\* strings.Split(t, ","), from the text left, the part begun and the parts
\* done.
RECURSIVE splitComma(_, _, _)
splitComma(t, cur, done) ==
  IF Len(t) = 0 THEN Append(done, cur)
  ELSE IF Head(t) = "," THEN splitComma(Tail(t), <<>>, Append(done, cur))
  ELSE splitComma(Tail(t), Append(cur, Head(t)), done)

\* strings.TrimSpace.
RECURSIVE trimRight(_)
trimRight(t) ==
  IF Len(t) > 0 /\ isSpace(t[Len(t)]) THEN trimRight(SubSeq(t, 1, Len(t) - 1))
  ELSE t

TrimSpace(t) == trimRight(skipSpace(t))

\* What Run of splitCmd prints after a successful Split.
splitReport(nn, nk, shares) ==
  <<infoLine("Secret split into %d parts, %d parts required for recovery:")>>
  \o [i \in 1..Len(shares) |-> shareLine(i, shares[i])]
  \o <<infoLine("To recover the secret use the command:"),
       infoLine("shamir-cli combine \"[parts_separated_by_commas]\""),
       exampleLine(shares)>>

\* Run of splitCmd: what it prints, the exit status and what Split
\* returned when it was called.
splitCmd(im, s, nText, kText, r) ==
  LET nn == atoi(nText)
      nk == atoi(kText)
      refuse(text) == [stdout |-> <<usageLine(text)>>, exit |-> ExitError,
                       split |-> noSplit]
  IN  IF ~nn.ok THEN refuse("Error: invalid number of parts")
      ELSE IF ~nk.ok THEN refuse("Error: invalid threshold")
      ELSE IF nk.value < 2
        THEN refuse("Error: minimum number of parts for recovery must be at least 2")
      ELSE IF nn.value < nk.value
        THEN refuse("Error: total number of parts cannot be less than threshold")
      ELSE IF nn.value > 255
        THEN refuse("Error: total number of parts cannot be greater than 255")
      ELSE LET res == callSplit(im, s, nn.value, nk.value, r)
           IN  IF res.err # ErrNil
                 THEN [stdout |-> <<errorLine("Error during splitting: ", res.err)>>,
                       exit |-> ExitError, split |-> res]
                 ELSE [stdout |-> splitReport(nn.value, nk.value, res.shares),
                       exit |-> ExitOk, split |-> res]

\* The loop of combineCmd over shareStrings, from part i (1-based) with the
\* shares appended and the results of StringToShare so far.  It ends at the
\* first part StringToShare does not accept.
\* parseParts going on to the next part after one that fails to decode.
RECURSIVE parsePartsPastFailure(_, _, _, _, _)
parsePartsPastFailure(im, shareStrings, i, shares, outs) ==
  IF i > Len(shareStrings)
    THEN [shares |-> shares, outs |-> outs, failedAt |-> 0]
  ELSE LET shareStr == TrimSpace(shareStrings[i])
           res == callStringToShare(im, shareStr)
       IN  IF shareStr = <<>>
             THEN parsePartsPastFailure(im, shareStrings, i + 1, shares, outs)
           ELSE IF res.panicked \/ res.err # ErrNil
             THEN parsePartsPastFailure(im, shareStrings, i + 1, shares,
                                        Append(outs, res))
           ELSE parsePartsPastFailure(im, shareStrings, i + 1,
                                      Append(shares, res.share),
                                      Append(outs, res))

RECURSIVE parseParts(_, _, _, _, _)
parseParts(im, shareStrings, i, shares, outs) ==
  IF i > Len(shareStrings)
    THEN [shares |-> shares, outs |-> outs, failedAt |-> 0]
  ELSE LET shareStr == TrimSpace(shareStrings[i])
           res == callStringToShare(im, shareStr)
       IN  IF shareStr = <<>>
             THEN parseParts(im, shareStrings, i + 1, shares, outs)
           ELSE IF res.panicked \/ res.err # ErrNil
             THEN [shares |-> shares, outs |-> Append(outs, res), failedAt |-> i]
           ELSE parseParts(im, shareStrings, i + 1, Append(shares, res.share),
                           Append(outs, res))

\* combineReport going on to print after the error of Combine.
combineReportNoExit(res) ==
  IF res.err # ErrNil
    THEN [stdout |-> <<errorLine("Error during recovery: ", res.err),
                       recoveredLine(res.secret)>>,
          exit |-> ExitOk]
    ELSE [stdout |-> <<recoveredLine(res.secret)>>, exit |-> ExitOk]

\* The end of Run of combineCmd: what it prints for the result of Combine,
\* and the exit status.
combineReport(res) ==
  IF res.err # ErrNil
    THEN [stdout |-> <<errorLine("Error during recovery: ", res.err)>>,
          exit |-> ExitError]
    ELSE [stdout |-> <<recoveredLine(res.secret)>>, exit |-> ExitOk]

\* Run of combineCmd after the loop over shareStrings, for what the loop
\* left: what it prints, the exit status, what the calls of StringToShare
\* returned, the shares passed to Combine and what Combine returned when it
\* was called.
combineParsed(im, parsed, failed, res) ==
  IF parsed.failedAt # 0 /\ failed.panicked
    THEN [stdout |-> <<>>, exit |-> ExitPanic, outs |-> parsed.outs,
          shares |-> parsed.shares, combine |-> noCombine]
  ELSE IF parsed.failedAt # 0
    THEN [stdout |-> <<[kind |-> "error", text |-> "Error parsing part ",
                        index |-> parsed.failedAt, err |-> failed.err]>>,
          exit |-> ExitError, outs |-> parsed.outs,
          shares |-> parsed.shares, combine |-> noCombine]
  ELSE IF Len(parsed.shares) < 2
    THEN [stdout |-> <<usageLine(
                         "Error: minimum 2 valid parts required for recovery")>>,
          exit |-> ExitError, outs |-> parsed.outs,
          shares |-> parsed.shares, combine |-> noCombine]
  ELSE [stdout |-> combineReport(res).stdout,
        exit |-> combineReport(res).exit,
        outs |-> parsed.outs, shares |-> parsed.shares, combine |-> res]

\* The loop of combineCmd and what follows it.
combineParts(im, parsed) ==
  combineParsed(im, parsed, parsed.outs[Len(parsed.outs)],
                callCombine(im, parsed.shares))

\* Run of combineCmd.
combineCmd(im, arg) ==
  IF Len(splitComma(arg, <<>>, <<>>)) < 2
    THEN [stdout |-> <<usageLine(
                         "Error: minimum 2 parts required for recovery")>>,
          exit |-> ExitError, outs |-> <<>>, shares |-> <<>>,
          combine |-> noCombine]
    ELSE combineParts(im, parseParts(im, splitComma(arg, <<>>, <<>>), 1,
                                     <<>>, <<>>))

\* The texts given for total_parts and threshold.
NumberTexts == {<<>>, <<"x">>, <<"-", "1">>, <<"1">>, <<"2">>, <<"+", "3">>,
                <<"2", "5", "6">>}

\* The parts the argument of the combine command is made of.
PartTexts == {<<>>, <<"x">>, <<"1", ":", "4", "1">>, <<"2", ":", "4", "2">>,
              <<" ", "3", ":", "0", "0", " ">>, <<"1", ":", "4">>,
              <<"2", ":", "4", "g">>, <<"3", ":", "4", "1", "4", "2">>}

\* The parts joined by commas.
RECURSIVE joinComma(_)
joinComma(parts) ==
  IF Len(parts) = 0 THEN <<>>
  ELSE IF Len(parts) = 1 THEN parts[1]
  ELSE parts[1] \o <<",">> \o joinComma(Tail(parts))

\* The arguments given to the combine command.
ArgTexts == {joinComma(parts) : parts \in SeqsUpTo(PartTexts, MaxArgParts)}

InitCli ==
  /\ impl \in Impls
  /\ pc = "cli"
  /\ secret = <<>>
  /\ n = 0
  /\ k = 0
  /\ rnd = <<>>
  /\ splitOut = noSplit
  /\ held = <<>>
  /\ origin = "none"
  /\ combOut = noCombine
  /\ probe = noProbe
  /\ stdout = <<>>
  /\ exit = running
  /\ tables = tablesBuilt
  /\ memory = <<>>
  /\ goroutines = <<>>

\* shamir-cli split secret total_parts threshold.
SplitCmd ==
  /\ pc = "cli"
  /\ \E s \in Secrets, nText \in NumberTexts, kText \in NumberTexts :
       \E r \in Draws(impl, s, atoi(nText).value, atoi(kText).value) :
         \E run \in {splitCmd(impl, s, nText, kText, r)} :
             /\ secret' = s
             /\ n' = atoi(nText).value
             /\ k' = atoi(kText).value
             /\ rnd' = r
             /\ splitOut' = run.split
             /\ stdout' = run.stdout
             /\ exit' = run.exit
             /\ probe' = [op |-> "split", nText |-> nText, kText |-> kText]
  /\ pc' = "exited"
  /\ UNCHANGED <<impl, held, origin, combOut,
               tables, memory, goroutines>>

\* shamir-cli combine parts_separated_by_commas.
CombineCmd ==
  /\ pc = "cli"
  /\ \E arg \in ArgTexts :
       \E run \in {combineCmd(impl, arg)} :
           /\ held' = run.shares
           /\ combOut' = run.combine
           /\ stdout' = run.stdout
           /\ exit' = run.exit
           /\ probe' = [op |-> "combine", arg |-> arg, outs |-> run.outs]
  /\ origin' = "parsed"
  /\ pc' = "exited"
  /\ UNCHANGED <<impl, secret, n, k, rnd, splitOut,
               tables, memory, goroutines>>

NextCli == SplitCmd \/ CombineCmd

SpecCli == InitCli /\ [][NextCli]_vars

-----------------------------------------------------------------------------
(* The claims. *)

\* Combine has returned for shares kept from one successful Split.
CombinedSubset ==
  /\ pc = "combine"
  /\ origin = "subset"
  /\ splitOut.err = ErrNil

\* C1: Combine applied to any k of the shares that Split(secret, n, k)
\* returned, whatever the random coefficients were and also for the empty
\* secret, returns exactly secret and no error.
C1_KSubsetRecovers ==
  (CombinedSubset /\ Len(held) = k) =>
    (combOut.err = ErrNil /\ combOut.secret = secret)

\* C1's case: 3 of 3 shares of a one-byte secret, with a nonzero
\* coefficient of the highest degree drawn, have been combined.
C1_Witness ==
  /\ CombinedSubset
  /\ k = 3
  /\ Len(held) = 3
  /\ secret = <<65>>
  /\ \E p \in DOMAIN rnd : rnd[p][2] # 0
  /\ combOut.secret = <<65>>

\* C2: Combine applied to any m of the shares of one Split output, with
\* k <= m <= n, succeeds and returns the original secret.
C2_MoreSharesRecover ==
  (CombinedSubset /\ Len(held) >= k /\ Len(held) <= n) =>
    (combOut.err = ErrNil /\ combOut.secret = secret)

\* C2's case: 3 shares of a split with threshold 2 have been combined.
C2_Witness ==
  /\ CombinedSubset
  /\ k = 2
  /\ Len(held) = 3
  /\ secret = <<66>>
  /\ \E p \in DOMAIN rnd : rnd[p][1] # 0
  /\ combOut.err = ErrNil
  /\ combOut.secret = secret

\* C3: fewer than k shares reveal nothing about a payload byte: at any k-1
\* distinct share ids and any value position, every tuple of share bytes
\* is produced by the same number of random-coefficient choices (exactly
\* one) whatever the byte is.  The 256^(k-1) choices yield 256^(k-1)
\* distinct tuples.
C3_SharesRevealNothing ==
  probe.op = "secrecy" => probe.tuples = FieldSize ^ (k - 1)

\* C3's case: the tuples at two ids, one of them 255, have been counted for
\* threshold 3 and a nonzero byte.
C3_Witness ==
  /\ probe.op = "secrecy"
  /\ k = 3
  /\ probe.ids = {2, 255}
  /\ probe.byte = 65
  /\ probe.tuples = 65536

\* C4: Split returns a parameter error and no shares, having drawn no
\* random byte, exactly when k < 2 or n < k or n > 255; for every other
\* (n, k) it returns no error.
C4_ParameterErrors ==
  pc = "split" =>
    LET refused == k < 2 \/ n < k \/ n > 255
    IN  /\ refused <=> splitOut.err \in {ErrThreshold, ErrTotal, ErrTooMany}
        /\ refused => (splitOut.shares = <<>> /\ splitOut.drawn = 0)
        /\ ~refused => splitOut.err = ErrNil

\* C4's case: Split(secret, 300, 2) has been refused.
C4_Witness ==
  /\ pc = "split"
  /\ n = 300
  /\ k = 2
  /\ secret = <<65, 66>>
  /\ splitOut.err = ErrTooMany
  /\ splitOut.shares = <<>>

\* C5: every successful Split(secret, n, k) returns exactly n shares, each
\* with a value of length len(secret) + 1.
C5_ShareCountAndLength ==
  (pc = "split" /\ splitOut.err = ErrNil) =>
    /\ Len(splitOut.shares) = n
    /\ \A i \in 1..Len(splitOut.shares) :
         Len(splitOut.shares[i].Value) = Len(secret) + 1

\* C6: for every successful Split(secret, n, k), the empty secret included,
\* the i-th share has id i, so the ids are pairwise distinct and in 1..255.
C6_ShareIds ==
  (pc = "split" /\ splitOut.err = ErrNil) =>
    \A i \in 1..Len(splitOut.shares) : splitOut.shares[i].ID = i

\* Combine has returned for a list of at least 2 shares of one length,
\* which is at least 1.
CombinedWellFormed ==
  /\ pc = "combine"
  /\ combineCheck(held) = ErrNil
  /\ Len(held[1].Value) >= 1

\* C7: on a well-formed input Combine succeeds if and only if the last
\* interpolated byte is the XOR of the interpolated bytes before it; then
\* it returns exactly those bytes, and otherwise a ChecksumFailed error and
\* no secret.
C7_ChecksumGate ==
  CombinedWellFormed =>
    LET augmented == interpolateAll(held)
        len == Len(augmented)
        front == SubSeq(augmented, 1, len - 1)
        match == augmented[len] = calculateChecksum(front)
    IN  /\ combOut.err = ErrNil <=> match
        /\ match => combOut.secret = front
        /\ ~match => (combOut.err = ErrChecksum /\ combOut.secret = <<>>)

\* C8: when exactly one byte of one share is changed in a set of at least k
\* shares of one Split output, Combine returns ChecksumFailed and no secret.
C8_AlteredByteRejected ==
  (pc = "combine" /\ origin = "tampered" /\ Len(held) >= k) =>
    (combOut.err = ErrChecksum /\ combOut.secret = <<>>)

\* C9: Combine called with 0 or 1 shares returns the InsufficientShares
\* error and no secret, whatever the shares hold.
C9_TooFewShares ==
  (pc = "combine" /\ Len(held) < 2) =>
    (combOut.err = ErrFewShares /\ combOut.secret = <<>>)

\* C9's case: Combine has been called with one share that holds a byte.
C9_Witness ==
  /\ pc = "combine"
  /\ Len(held) = 1
  /\ Len(held[1].Value) = 1
  /\ held[1].ID # 0
  /\ combOut.err = ErrFewShares

\* C10: Combine called with at least 2 shares, two of which have values of
\* different lengths, returns the LengthMismatch error and no secret, and
\* interpolates no byte.
C10_LengthMismatch ==
  (/\ pc = "combine"
   /\ Len(held) >= 2
   /\ \E i, j \in 1..Len(held) : Len(held[i].Value) # Len(held[j].Value)) =>
    /\ combOut.err = ErrLength
    /\ combOut.secret = <<>>
    /\ combOut.interpolated = 0

\* C10's case: Combine has been called with 2 shares of which the second
\* is the longer.
C10_Witness ==
  /\ pc = "combine"
  /\ Len(held) = 2
  /\ Len(held[1].Value) = 0
  /\ Len(held[2].Value) = 1
  /\ held[1].ID # held[2].ID
  /\ combOut.err = ErrLength

\* C11: Combine called with at least 2 shares of one length, two of which
\* have the same id, returns an error before it interpolates any byte and
\* returns no secret.
C11_DuplicateIdRejected ==
  (/\ pc = "combine"
   /\ Len(held) >= 2
   /\ \A i \in 1..Len(held) : Len(held[i].Value) = Len(held[1].Value)
   /\ \E i, j \in 1..Len(held) : i # j /\ held[i].ID = held[j].ID) =>
    /\ combOut.err # ErrNil
    /\ combOut.secret = <<>>
    /\ combOut.interpolated = 0

\* The index of the first colon of text t, and Len(t) + 1 without one.
firstColon(t) ==
  IF \E i \in DOMAIN t : t[i] = ":"
    THEN CHOOSE i \in DOMAIN t :
           t[i] = ":" /\ \A j \in 1..(i - 1) : t[j] # ":"
    ELSE Len(t) + 1

hasColon(t) == firstColon(t) <= Len(t)

\* The text before the first colon and the text after it.
idPortion(t) == SubSeq(t, 1, firstColon(t) - 1)
hexPortion(t) == SubSeq(t, firstColon(t) + 1, Len(t))

\* StringToShare has returned an error and the zero share.
DecodeRefused ==
  /\ probe.out.err \in {ErrPartFormat, ErrHexFormat}
  /\ ~probe.out.panicked
  /\ probe.out.share = zeroShare

\* StringToShare(ShareToString(share)) has returned share.
RoundTripHolds ==
  /\ probe.out.err = ErrNil
  /\ ~probe.out.panicked
  /\ probe.out.share = probe.share

\* C12 as stated: for every share with id in 1..255 and a value of any
\* length, the empty one included, StringToShare(ShareToString(share))
\* returns no error and the same share.
C12_RoundTripAnyLength ==
  (probe.op = "roundtrip" /\ probe.share.ID \in 1..255) => RoundTripHolds

\* C12, amended: for every share with id in 1..255 and a value of at least
\* one byte, StringToShare(ShareToString(share)) returns no error and a
\* share with the same id and the same value bytes.
C12_RoundTrip ==
  (/\ probe.op = "roundtrip"
   /\ probe.share.ID \in 1..255
   /\ Len(probe.share.Value) >= 1) => RoundTripHolds

\* C12's case: the share 255:000a has gone through both conversions.
C12_Witness ==
  /\ probe.op = "roundtrip"
  /\ probe.share = [ID |-> 255, Value |-> <<0, 10>>]
  /\ probe.text = <<"2", "5", "5", ":", "0", "0", "0", "a">>
  /\ probe.out.share = probe.share

\* C13: ShareToString(share) is the id in decimal, one colon, then exactly
\* two lowercase hexadecimal digits per value byte, in order, and nothing
\* else.
C13_TextFormat ==
  probe.op = "encode" =>
    LET id == probe.share.ID
        v == probe.share.Value
        t == probe.text
        d == IF id < 10 THEN 1 ELSE IF id < 100 THEN 2 ELSE 3
    IN  /\ Len(t) = d + 1 + 2 * Len(v)
        /\ \A i \in 1..d : t[i] \in DecChars
        /\ d > 1 => t[1] # "0"
        /\ parseUint(SubSeq(t, 1, d), 10, 0) = id
        /\ t[d + 1] = ":"
        /\ \A j \in 1..Len(v) :
             LET hi == t[d + 2 * j]
                 lo == t[d + 2 * j + 1]
             IN  /\ {hi, lo} \subseteq DecChars \cup {"a", "b", "c", "d", "e", "f"}
                 /\ 16 * digitValue(hi) + digitValue(lo) = v[j]

\* C13's case: the share with id 10 and the bytes 0x0a, 0xff has been
\* turned into text.
C13_Witness ==
  /\ probe.op = "encode"
  /\ probe.share = [ID |-> 10, Value |-> <<10, 255>>]
  /\ probe.text = <<"1", "0", ":", "0", "a", "f", "f">>

\* C14: StringToShare applied to a text whose part after the first colon
\* has odd length returns a format error and no share, and does not fault.
C14_OddHexRefused ==
  (/\ probe.op = "decode"
   /\ hasColon(probe.text)
   /\ Len(hexPortion(probe.text)) % 2 = 1) => DecodeRefused

\* C15: StringToShare returns a format error and no share for every text
\* whose part after the first colon holds a character that is not a
\* hexadecimal digit, in the first or the second place of a pair.
C15_InvalidHexRefused ==
  (/\ probe.op = "decode"
   /\ hasColon(probe.text)
   /\ \E i \in DOMAIN hexPortion(probe.text) :
        hexPortion(probe.text)[i] \notin HexChars) => DecodeRefused

\* C16: StringToShare returns an error and no share for every text with
\* nothing after the first colon.
C16_EmptyHexRefused ==
  (/\ probe.op = "decode"
   /\ hasColon(probe.text)
   /\ hexPortion(probe.text) = <<>>) => DecodeRefused

\* C16's case: the text 7: has been refused.
C16_Witness ==
  /\ probe.op = "decode"
  /\ probe.text = <<"7", ":">>
  /\ probe.out.err = ErrPartFormat
  /\ probe.out.share = zeroShare

\* The text is an unsigned decimal number in 1..255.
idInRange(t) ==
  /\ Len(t) >= 1
  /\ \A i \in DOMAIN t : t[i] \in DecChars
  /\ parseUint(t, 10, 0) \in 1..255

\* C17: StringToShare returns a format error and no share when the id of
\* the text is 0, above 255 or not a number.
C17_IdRangeRefused ==
  (probe.op = "decode" /\ ~idInRange(idPortion(probe.text))) => DecodeRefused

\* C18: for every field element a in 1..255, the table-backed product of a
\* and its table-backed inverse is 1.
C18_InverseProduct ==
  (probe.op = "inverse" /\ probe.a \in 1..255) => probe.product = 1

\* C18's case: 0x53 has been multiplied by its inverse 0xca.
C18_Witness ==
  /\ probe.op = "inverse"
  /\ probe.a = 83
  /\ probe.inv = 202
  /\ probe.product = 1

\* C19: whenever Split, Combine or StringToShare returns an error, what it
\* returns with it is empty: no shares, no secret bytes, the zero share.
C19_ErrorResultsEmpty ==
  /\ (pc = "split" /\ splitOut.err # ErrNil) => splitOut.shares = <<>>
  /\ (pc = "combine" /\ combOut.err # ErrNil) => combOut.secret = <<>>
  /\ (probe.op = "decode" /\ ~probe.out.panicked /\ probe.out.err # ErrNil) =>
       probe.out.share = zeroShare

\* C19's case: Combine has interpolated a byte from two shares, found the
\* checksum wrong and returned the error.
C19_Witness ==
  /\ pc = "combine"
  /\ Len(held) = 2
  /\ combOut.err = ErrChecksum
  /\ combOut.interpolated = 1
  /\ interpolateAll(held) # <<0>>
  /\ combOut.secret = <<>>

\* An engine operation has returned an error in the run of the command.
splitFailed == splitOut.err \notin {"not called", ErrNil}
combineFailed == combOut.err \notin {"not called", ErrNil}
decodeFailed ==
  /\ probe.op = "combine"
  /\ \E i \in DOMAIN probe.outs :
       ~probe.outs[i].panicked /\ probe.outs[i].err # ErrNil

\* The message of the error the engine returned in the run.
engineError ==
  IF splitFailed THEN splitOut.err
  ELSE IF combineFailed THEN combOut.err
  ELSE probe.outs[Len(probe.outs)].err

\* C20: in the split and combine commands, whenever Split, StringToShare
\* or Combine returns an error, the process prints the error's message,
\* exits with a non-zero status and prints no share line and no recovered
\* secret line in that run.
C20_EngineErrorExit ==
  (pc = "exited" /\ (splitFailed \/ combineFailed \/ decodeFailed)) =>
    /\ exit # ExitOk
    /\ \E i \in DOMAIN stdout :
         stdout[i].kind = "error" /\ stdout[i].err = engineError
    /\ \A i \in DOMAIN stdout : stdout[i].kind \notin {"share", "recovered"}

\* C20's case: the combine command has parsed two parts, Combine has
\* refused them and the process has ended.
C20_Witness ==
  /\ pc = "exited"
  /\ probe.op = "combine"
  /\ Len(held) = 2
  /\ combineFailed
  /\ exit = ExitError
  /\ stdout = <<errorLine("Error during recovery: ", combOut.err)>>

\* The product of the polynomials a and b over GF(2), before any reduction:
\* the XOR of a shifted left by every set bit of b.
RECURSIVE carrylessProduct(_, _, _)
carrylessProduct(a, b, i) ==
  IF i > 7 THEN 0
  ELSE xorBits(IF (b \div (2 ^ i)) % 2 = 1 THEN a * (2 ^ i) ELSE 0,
               carrylessProduct(a, b, i + 1), 16)

\* v reduced modulo x^8 + x^4 + x^3 + x + 1 (0x11B), from bit `bit` down.
RECURSIVE reduceModulo(_, _)
reduceModulo(v, bit) ==
  IF bit < 8 THEN v
  ELSE reduceModulo(IF (v \div (2 ^ bit)) % 2 = 1
                      THEN xorBits(v, 283 * (2 ^ (bit - 8)), 16)
                      ELSE v,
                    bit - 1)

referenceProduct(a, b) == reduceModulo(carrylessProduct(a, b, 0), 14)

\* C21: for every pair of bytes the bit-serial multiplication returns the
\* GF(256) product (the carry-less product reduced modulo 0x11B); a product
\* with 0 is 0 and a product with 1 is the other factor.
C21_MulIsFieldProduct ==
  probe.op = "multiply" =>
    /\ probe.primitive = referenceProduct(probe.a, probe.b)
    /\ (probe.a = 0 \/ probe.b = 0) => probe.primitive = 0
    /\ probe.b = 1 => probe.primitive = probe.a
    /\ probe.a = 1 => probe.primitive = probe.b

\* C21's case: 0x57 * 0x83 = 0xc1, a product that needs the reduction.
C21_Witness ==
  /\ probe.op = "multiply"
  /\ probe.a = 87
  /\ probe.b = 131
  /\ probe.primitive = 193

\* x to the power i in the field, by i multiplications starting from 1.
RECURSIVE fieldPower(_, _)
fieldPower(x, i) ==
  IF i = 0 THEN 1 ELSE gfMulPrimitive(fieldPower(x, i - 1), x)

\* The XOR over i >= from of coeffs[i] * x^i (coeffs[i] is the code's
\* 0-based coeffs[i], the model's coeffs[i + 1]).
RECURSIVE termSum(_, _, _)
termSum(coeffs, x, from) ==
  IF from >= Len(coeffs) THEN 0
  ELSE xorBits(gfMulPrimitive(coeffs[from + 1], fieldPower(x, from)),
               termSum(coeffs, x, from + 1), 8)

\* C22: evaluatePolynomial(coeffs, x) is the XOR over i of
\* coeffs[i] * x^i with x^0 = 1; it is 0 for the empty vector and coeffs[0]
\* at x = 0.
C22_EvaluateIsTermSum ==
  probe.op = "evaluate" =>
    /\ probe.value = termSum(probe.coeffs, probe.x, 0)
    /\ probe.coeffs = <<>> => probe.value = 0
    /\ (probe.coeffs # <<>> /\ probe.x = 0) => probe.value = probe.coeffs[1]

\* C22's case: 1 + 173 x + 173 x^2 evaluated at x = 2 (173 * 2 = 0x41,
\* 173 * 4 = 0x82).
C22_Witness ==
  /\ probe.op = "evaluate"
  /\ probe.coeffs = <<1, 173, 173>>
  /\ probe.x = 2
  /\ probe.value = 194

\* The ids of the shares Combine was called on, in order (the xs of
\* lagrangeInterpolation).
heldIds == [i \in 1..Len(held) |-> held[i].ID]

distinctIds ==
  \A i, j \in 1..Len(held) : i # j => held[i].ID # held[j].ID

\* C23: when Combine interpolates shares with pairwise distinct ids, every
\* Lagrange denominator is nonzero, so no term is skipped; and whatever the
\* shares are, gfInv is never called with 0 during interpolation.
C23_DenominatorsNonzero ==
  (pc = "combine" /\ combOut.interpolated > 0) =>
    /\ distinctIds =>
         \A i \in 1..Len(held) : lagrangeDenominators(heldIds)[i] # 0
    /\ 0 \notin lagrangeInvArgs(heldIds)

\* C23's case: Combine interpolated three shares of a 3-of-3 split, with
\* ids 1, 2, 3 and denominators 1^2 * 1^3 = 6, 2^1 * 2^3 = 3 and
\* 3^1 * 3^2 = 2 (^ is XOR, * the field product).
C23_Witness ==
  /\ pc = "combine"
  /\ origin = "subset"
  /\ combOut.interpolated > 0
  /\ heldIds = <<1, 2, 3>>
  /\ lagrangeDenominators(heldIds) = <<6, 3, 2>>
  /\ lagrangeInvArgs(heldIds) = {6, 3, 2}

\* The bytes Split makes polynomials for in call c: the secret, with its
\* checksum in the copy that has one.
payloadOfCall(c) ==
  IF impl = Plain THEN c.secret
  ELSE Append(c.secret, calculateChecksum(c.secret))

\* The <<position, coefficient>> pairs of call c.
coefficientSlots(c) ==
  (1..Len(payloadOfCall(c))) \X (1..(c.k - 1))

\* The place in the stream of the delivery behind coefficient i of position
\* p of call c.
slotDelivery(c, slot) == c.cursor + drawIndex(c.k, slot[1], slot[2])

\* C25: a successful Split draws exactly k-1 bytes per value position; no
\* delivery of the source becomes the coefficient of two positions of the
\* call or of two calls; each share value is its position's polynomial with
\* the payload byte as constant coefficient and the drawn bytes after it.
C25_FreshCoefficients ==
  probe.op = "draws" =>
    \A a \in 1..Len(probe.calls) :
      LET c == probe.calls[a]
      IN  c.out.err = ErrNil =>
            /\ c.out.drawn = Len(payloadOfCall(c)) * (c.k - 1)
            /\ \A s1, s2 \in coefficientSlots(c) :
                 s1 # s2 => slotDelivery(c, s1) # slotDelivery(c, s2)
            /\ \A b \in 1..Len(probe.calls) :
                 (a # b /\ probe.calls[b].out.err = ErrNil) =>
                   \A s1 \in coefficientSlots(c),
                      s2 \in coefficientSlots(probe.calls[b]) :
                     slotDelivery(c, s1) # slotDelivery(probe.calls[b], s2)
            /\ \A s1 \in coefficientSlots(c) :
                 slotDelivery(c, s1) \in 1..Len(probe.stream)
            /\ \A i \in 1..c.n : \A p \in 1..Len(payloadOfCall(c)) :
                 c.out.shares[i].Value[p] =
                   termSum(<<payloadOfCall(c)[p]>> \o
                             [j \in 1..(c.k - 1) |->
                                readByte(probe.stream[
                                  slotDelivery(c, <<p, j>>)])],
                           i, 0)

\* C25's case: two successful 3-of-3 splits of the secret 0x41, one after the
\* other on the same source, with no failed delivery.
C25_Witness ==
  /\ probe.op = "draws"
  /\ Len(probe.calls) = 2
  /\ \A a \in 1..2 :
       /\ probe.calls[a].out.err = ErrNil
       /\ probe.calls[a].secret = <<65>>
       /\ probe.calls[a].k = 3
  /\ \A d \in 1..Len(probe.stream) : ~probe.stream[d].err
  /\ probe.calls[2].cursor = 2 * Len(payloadOfCall(probe.calls[1]))

\* Some delivery behind a coefficient of call c was a failure.
drawFailed(c) ==
  \E s1 \in coefficientSlots(c) : probe.stream[slotDelivery(c, s1)].err

\* C29: when the random source fails on a coefficient draw, Split returns an
\* error and no shares instead of shares built on the zero coefficient.
C29_RandFailureRefused ==
  probe.op = "draws" =>
    \A a \in 1..Len(probe.calls) :
      LET c == probe.calls[a]
      IN  (splitCheck(c.n, c.k) = ErrNil /\ drawFailed(c)) =>
            /\ c.out.err # ErrNil
            /\ c.out.shares = <<>>

\* C27: Combine returns the same outcome, secret or error, for a list of
\* shares and for every rearrangement of that list.
C27_OrderIndependent ==
  probe.op = "reorder" =>
    /\ probe.out.err = combOut.err
    /\ probe.out.secret = combOut.secret

\* C27's case: two shares with different ids and one value byte each were
\* interpolated, and then combined again in the opposite order.
C27_Witness ==
  /\ probe.op = "reorder"
  /\ Len(held) = 2
  /\ held[1].ID # held[2].ID
  /\ probe.shares = <<held[2], held[1]>>
  /\ combOut.interpolated = 1
  /\ probe.out.interpolated = 1
  /\ combOut.err = ErrNil

\* C28: every share a successful Split returns, for every secret including
\* the empty one, is decoded from its own text without error, to the same
\* id and value.
C28_SplitSharesSurviveCodec ==
  probe.op = "reparse" =>
    \A i \in 1..Len(splitOut.shares) :
      /\ probe.outs[i].err = ErrNil
      /\ probe.outs[i].share = splitOut.shares[i]

\* The comma-separated segments of the argument of the combine command,
\* trimmed.
segments ==
  LET parts == splitComma(probe.arg, <<>>, <<>>)
  IN  [i \in 1..Len(parts) |-> TrimSpace(parts[i])]

nonEmptySegments == {i \in 1..Len(segments) : segments[i] # <<>>}

segmentDecodes(i) ==
  LET res == callStringToShare(impl, segments[i])
  IN  res.err = ErrNil /\ ~res.panicked

failingSegments == {i \in nonEmptySegments : ~segmentDecodes(i)}

\* The non-empty segments up to the first one that fails to decode.
segmentsTried ==
  {i \in nonEmptySegments : \A j \in failingSegments : i <= j}

combineCalled == combOut.err # "not called"

C26_CallerMemoryKept ==
  /\ probe.op = "slice" => probe.after = probe.array
  /\ pc = "combined" => held = splitOut.shares

\* C24: the tables are written by the one initialisation only, which is
\* over before any call begins; no call changes the tables or the memory
\* the calls share, and every call returns what it returns when run alone.
C24_ConcurrentCallsIsolated ==
  probe.op = "concurrent" =>
    /\ tables.writes <= 1
    /\ \A g \in Goroutines :
         goroutines[g].state # "idle" => tables = tablesBuilt
    /\ memory = probe.array
    /\ \A g \in Goroutines :
         goroutines[g].state = "returned" =>
           goroutines[g].result = goroutines[g].alone

=============================================================================
